---- MODULE Spec2Model ----
(***************************************************************************)
(* Model of db/dbformat.h: the internal-key codec, the owning key types,   *)
(* the internal key comparator, the filter policy adapter and the lookup   *)
(* key builders.                                                           *)
(*                                                                         *)
(* Bytes are naturals 0..255 and byte strings (Slice, std::string) are     *)
(* sequences of bytes.  A uint64_t is a numeral of eight base-256 digits,  *)
(* most significant digit first, so that the 64-bit width, the shifts and  *)
(* the masks of the code are exact (TLC's integers are 32 bits wide).      *)
(***************************************************************************)
EXTENDS Integers, Sequences, FiniteSets, TLC

VARIABLES
  op,      \* the operation that ran last
  arg,     \* its input
  ret,     \* its return value
  dst,     \* the std::string the codec appends to and parses from
  result,  \* the Parsed(MV)InternalKey a parse writes to
  reads,   \* offsets of the input the last parse read through DecodeFixed64
  key,     \* the owning key object: its class and its rep_
  lk       \* the lookup key object: buffer, start_, kstart_, end_

vars == <<op, arg, ret, dst, result, reads, key, lk>>

----------------------------------------------------------------------------
(* Bounds of the model. *)

\* User keys of every length up to MaxKeyLen over KeyAlphabet are enumerated.
MaxKeyLen == 2
\* The codec appends to a buffer that already holds at most this many bytes.
MaxPrefixLen == 1

----------------------------------------------------------------------------
(* Program constants. *)

kTypeDeletion == 0
kTypeValue == 1
kValueTypeForSeek == kTypeValue
\* sizeof(space_)
kSpaceSize == 200

Byte == 0..255

\* (0x1ull << 56) - 1
kMaxSequenceNumber == <<0, 255, 255, 255, 255, 255, 255, 255>>
\* UINT64_MAX
kMaxValidTime == <<255, 255, 255, 255, 255, 255, 255, 255>>
kMinValidTime == <<0, 0, 0, 0, 0, 0, 0, 0>>

----------------------------------------------------------------------------
(* 64-bit unsigned arithmetic on eight base-256 digits, most significant   *)
(* first.                                                                  *)

IsU64(v) == /\ Len(v) = 8
            /\ \A i \in 1..8 : v[i] \in Byte

\* The numeral of a natural below 2^24.
U64Of(n) == <<0, 0, 0, 0, 0, (n \div 65536) % 256, (n \div 256) % 256, n % 256>>

\* num >> 8
ShiftRight8(num) == <<0>> \o SubSeq(num, 1, 7)

\* num << 8: the top digit falls off the 64-bit word.
ShiftLeft8(num) == SubSeq(num, 2, 8) \o <<0>>

\* num & 0xff, as uint8_t
LowByte(num) == num[8]

RECURSIVE BitOr(_, _, _)
\* a | b over the low `bits` bits.
BitOr(a, b, bits) ==
  IF bits = 0 THEN 0
  ELSE (IF a % 2 = 1 \/ b % 2 = 1 THEN 1 ELSE 0)
       + 2 * BitOr(a \div 2, b \div 2, bits - 1)

\* num | t for a t below 256
OrLow(num, t) == [num EXCEPT ![8] = BitOr(num[8], t, 8)]

RECURSIVE LessFrom(_, _, _)
LessFrom(a, b, i) ==
  IF i > 8 THEN FALSE
  ELSE IF a[i] # b[i] THEN a[i] < b[i]
  ELSE LessFrom(a, b, i + 1)

\* a < b as unsigned 64-bit integers
LessU64(a, b) == LessFrom(a, b, 1)

----------------------------------------------------------------------------
(* util/coding: fixed-width and variable-width integer encodings. *)

\* The 8 bytes of a fixed64: little-endian, least significant byte first.
EncodeFixed64(v) == [i \in 1..8 |-> v[9 - i]]

\* The uint64 read from the 8 bytes at 0-based offset off of a byte string.
DecodeFixed64(bytes, off) == [i \in 1..8 |-> bytes[off + 9 - i]]

\* The offsets DecodeFixed64 reads.
Fixed64Span(off) == off .. (off + 7)

RECURSIVE EncodeVarint32(_)
\* 7 bits per byte, least significant group first, 0x80 marks continuation.
EncodeVarint32(v) ==
  IF v < 128 THEN <<v>>
  ELSE <<(v % 128) + 128>> \o EncodeVarint32(v \div 128)

RECURSIVE GetVarint32From(_, _)
\* The value and the length of the varint32 that starts at 1-based index i.
GetVarint32From(bytes, i) ==
  IF bytes[i] < 128 THEN [value |-> bytes[i], len |-> 1]
  ELSE LET rest == GetVarint32From(bytes, i + 1)
       IN [value |-> (bytes[i] - 128) + 128 * rest.value, len |-> 1 + rest.len]

----------------------------------------------------------------------------
(* The key codec. *)

ParsedInternalKey(u, seq, t) == [user_key |-> u, sequence |-> seq, type |-> t]

ParsedMVInternalKey(u, seq, t, vt) ==
  [user_key |-> u, sequence |-> seq, type |-> t, valid_time |-> vt]

InternalKeyEncodingLength(k) == Len(k.user_key) + 8

MVInternalKeyEncodingLength(k) == Len(k.user_key) + 16

\* (seq << 8) | t
PackSequenceAndType(seq, t) == OrLow(ShiftLeft8(seq), t)

\* *result after AppendInternalKey(result, k)
AppendInternalKey(buf, k) ==
  buf \o k.user_key \o EncodeFixed64(PackSequenceAndType(k.sequence, k.type))

\* *result after AppendMVInternalKey(result, k)
AppendMVInternalKey(buf, k) ==
  buf \o k.user_key \o EncodeFixed64(PackSequenceAndType(k.sequence, k.type))
      \o EncodeFixed64(k.valid_time)

\* ExtractUserKey cutting one byte too few.
ExtractUserKey_DropSeven(internal_key) ==
  SubSeq(internal_key, 1, Len(internal_key) - 7)

\* ExtractUserKey asserts size >= 8 and returns the first size - 8 bytes.
ExtractUserKeyPre(internal_key) == Len(internal_key) >= 8

ExtractUserKey(internal_key) == SubSeq(internal_key, 1, Len(internal_key) - 8)

MVExtractUserKeyPre(mv_internal_key) == Len(mv_internal_key) >= 16

MVExtractUserKey(mv_internal_key) ==
  SubSeq(mv_internal_key, 1, Len(mv_internal_key) - 16)

\* static_cast<ValueType>(c): ValueType has no fixed underlying type and its
\* values are 0 and 1; a c outside them is converted to the value itself or,
\* where the build keeps only the enumeration's bits, to c modulo 2.
CastToValueType(c) == IF c <= kTypeValue THEN {c} ELSE {c, c % 2}

\* ParseInternalKey with the user key taken as the whole input.
ParseInternalKey_WholeUserKey(internal_key, res) ==
  LET n == Len(internal_key) IN
  IF n < 8
    THEN {[ret |-> FALSE, result |-> res, reads |-> {}]}
    ELSE LET num == DecodeFixed64(internal_key, n - 8)
             c == LowByte(num)
         IN {[ret |-> (c <= kTypeValue),
              result |-> [user_key |-> internal_key,
                          sequence |-> ShiftRight8(num),
                          type |-> ty],
              reads |-> Fixed64Span(n - 8)] : ty \in CastToValueType(c)}

\* ParseInternalKey accepting every type byte up to 2.
ParseInternalKey_TypeOffByOne(internal_key, res) ==
  LET n == Len(internal_key) IN
  IF n < 8
    THEN {[ret |-> FALSE, result |-> res, reads |-> {}]}
    ELSE LET num == DecodeFixed64(internal_key, n - 8)
             c == LowByte(num)
         IN {[ret |-> (c <= kTypeValue + 1),
              result |-> [user_key |-> SubSeq(internal_key, 1, n - 8),
                          sequence |-> ShiftRight8(num),
                          type |-> ty],
              reads |-> Fixed64Span(n - 8)] : ty \in CastToValueType(c)}

\* ParseInternalKey with the sequence taken without the shift.
ParseInternalKey_NoShift(internal_key, res) ==
  LET n == Len(internal_key) IN
  IF n < 8
    THEN {[ret |-> FALSE, result |-> res, reads |-> {}]}
    ELSE LET num == DecodeFixed64(internal_key, n - 8)
             c == LowByte(num)
         IN {[ret |-> (c <= kTypeValue),
              result |-> [user_key |-> SubSeq(internal_key, 1, n - 8),
                          sequence |-> num,
                          type |-> ty],
              reads |-> Fixed64Span(n - 8)] : ty \in CastToValueType(c)}

\* The outcomes of ParseInternalKey(internal_key, &res): the return value,
\* *result afterwards and the input offsets read.
ParseInternalKey(internal_key, res) ==
  LET n == Len(internal_key) IN
  IF n < 8
    THEN {[ret |-> FALSE, result |-> res, reads |-> {}]}
    ELSE LET num == DecodeFixed64(internal_key, n - 8)
             c == LowByte(num)
         IN {[ret |-> (c <= kTypeValue),
              result |-> [user_key |-> SubSeq(internal_key, 1, n - 8),
                          sequence |-> ShiftRight8(num),
                          type |-> ty],
              reads |-> Fixed64Span(n - 8)] : ty \in CastToValueType(c)}

\* A byte of a string, 0 where the offset lies outside it.
ByteAt(bytes, i) == IF i \in 1..Len(bytes) THEN bytes[i] ELSE 0

\* ParseMVInternalKey with the length guard of ParseInternalKey: an input of
\* 8 to 15 bytes is read below its start.
ParseMVInternalKey_Guard8(mv_internal_key, res) ==
  LET n == Len(mv_internal_key) IN
  IF n < 8
    THEN {[ret |-> FALSE, result |-> res, reads |-> {}]}
    ELSE LET num == [i \in 1..8 |-> ByteAt(mv_internal_key, n - 16 + 9 - i)]
             c == LowByte(num)
         IN {[ret |-> (c <= kTypeValue),
              result |-> [user_key |-> SubSeq(mv_internal_key, 1, n - 16),
                          sequence |-> ShiftRight8(num),
                          type |-> ty,
                          valid_time |-> DecodeFixed64(mv_internal_key, n - 8)],
              reads |-> Fixed64Span(n - 16) \cup Fixed64Span(n - 8)]
               : ty \in CastToValueType(c)}

\* The outcomes of ParseMVInternalKey(mv_internal_key, &res).
ParseMVInternalKey(mv_internal_key, res) ==
  LET n == Len(mv_internal_key) IN
  IF n < 16
    THEN {[ret |-> FALSE, result |-> res, reads |-> {}]}
    ELSE LET num == DecodeFixed64(mv_internal_key, n - 16)
             c == LowByte(num)
         IN {[ret |-> (c <= kTypeValue),
              result |-> [user_key |-> SubSeq(mv_internal_key, 1, n - 16),
                          sequence |-> ShiftRight8(num),
                          type |-> ty,
                          valid_time |-> DecodeFixed64(mv_internal_key, n - 8)],
              reads |-> Fixed64Span(n - 16) \cup Fixed64Span(n - 8)]
               : ty \in CastToValueType(c)}

----------------------------------------------------------------------------
(* Inputs. *)

KeyAlphabet == {0, 97, 255}

RECURSIVE StringsUpTo(_)
StringsUpTo(n) ==
  IF n = 0 THEN {<<>>}
  ELSE LET shorter == StringsUpTo(n - 1)
       IN shorter \cup {s \o <<b>> : s \in shorter, b \in KeyAlphabet}

UserKeys == StringsUpTo(MaxKeyLen)

\* Sequence numbers of the logical range [0, 2^56 - 1].
SeqNums ==
  {U64Of(0), U64Of(1), U64Of(5), U64Of(256), kMaxSequenceNumber,
   <<0, 1, 2, 3, 4, 5, 6, 7>>}

ValueTypes == {kTypeDeletion, kTypeValue}

ValidTimes ==
  {kMinValidTime, U64Of(42), <<1, 2, 3, 4, 5, 6, 7, 8>>, kMaxValidTime}

ParsedKeys ==
  {ParsedInternalKey(u, s, t) : u \in UserKeys, s \in SeqNums, t \in ValueTypes}

ParsedMVKeys ==
  {ParsedMVInternalKey(u, s, t, vt) :
     u \in UserKeys, s \in SeqNums, t \in ValueTypes, vt \in ValidTimes}

\* Raw 64-bit tags as they may be found in stored bytes: every type byte
\* shape, with and without the top byte set.
TypeBytes == {0, 1, 2, 3, 128, 255}

RawTags ==
  {[hi EXCEPT ![8] = c] :
     hi \in {U64Of(1280), kMaxValidTime, <<9, 0, 0, 0, 0, 0, 1, 0>>},
     c \in TypeBytes}

Prefixes(s) == {SubSeq(s, 1, k) : k \in 0..Len(s)}

Suffixes(s) == {SubSeq(s, k, Len(s)) : k \in 1..(Len(s) + 1)}

ShortKeys == StringsUpTo(1)

\* Byte strings a caller may hand to a decode: whole and cut encodings of
\* either form, with valid and invalid type bytes.
RawInputs ==
  UNION {Prefixes(u \o EncodeFixed64(tag) \o EncodeFixed64(vt))
           \cup Suffixes(u \o EncodeFixed64(tag) \o EncodeFixed64(vt)) :
         u \in ShortKeys, tag \in RawTags, vt \in {U64Of(42), kMaxValidTime}}

\* A ParsedInternalKey as its default constructor leaves it: nothing is set.
Uninit == [user_key |-> <<>>, sequence |-> <<>>, type |-> 256]

----------------------------------------------------------------------------
(* The codec's operations on a caller's buffer.  A caller declares a      *)
(* fresh Parsed(MV)InternalKey, which its constructor leaves unset, for   *)
(* the bytes it is about to parse.                                         *)

NoKey == [cls |-> "none", rep_ |-> <<>>]

NoLookup == [cls |-> "none", buf |-> <<>>, start_ |-> 0, kstart_ |-> 0,
             end_ |-> 0, heap |-> FALSE]

Init ==
  /\ op = "init"
  /\ arg = <<>>
  /\ ret = FALSE
  /\ dst = <<>>
  /\ result = Uninit
  /\ reads = {}
  /\ key = NoKey
  /\ lk = NoLookup

\* The caller is between two uses of its buffer.
Idle == op \in {"init", "ClearBuffer"}

\* The caller's empty buffer is given some bytes.
SetBuffer ==
  /\ Idle
  /\ \E b \in RawInputs :
    /\ op' = "SetBuffer"
    /\ arg' = b
    /\ dst' = b
    /\ ret' = FALSE
    /\ reads' = {}
    /\ result' = Uninit
  /\ UNCHANGED <<key, lk>>

DoAppendInternalKey ==
  /\ Idle \/ op = "SetBuffer"
  /\ Len(dst) <= MaxPrefixLen
  /\ \E k \in ParsedKeys :
    /\ op' = "AppendInternalKey"
    /\ arg' = [buf |-> dst, key |-> k]
    /\ dst' = AppendInternalKey(dst, k)
    /\ ret' = FALSE
    /\ reads' = {}
    /\ result' = Uninit
  /\ UNCHANGED <<key, lk>>

DoAppendMVInternalKey ==
  /\ Idle \/ op = "SetBuffer"
  /\ Len(dst) <= MaxPrefixLen
  /\ \E k \in ParsedMVKeys :
    /\ op' = "AppendMVInternalKey"
    /\ arg' = [buf |-> dst, key |-> k]
    /\ dst' = AppendMVInternalKey(dst, k)
    /\ ret' = FALSE
    /\ reads' = {}
    /\ result' = Uninit
  /\ UNCHANGED <<key, lk>>

DoParseInternalKey ==
  \E o \in ParseInternalKey(dst, result) :
    /\ op' = "ParseInternalKey"
    /\ arg' = dst
    /\ ret' = o.ret
    /\ result' = o.result
    /\ reads' = o.reads
    /\ UNCHANGED <<dst, key, lk>>

DoParseMVInternalKey ==
  \E o \in ParseMVInternalKey(dst, result) :
    /\ op' = "ParseMVInternalKey"
    /\ arg' = dst
    /\ ret' = o.ret
    /\ result' = o.result
    /\ reads' = o.reads
    /\ UNCHANGED <<dst, key, lk>>

DoExtractUserKey ==
  /\ ExtractUserKeyPre(dst)
  /\ op' = "ExtractUserKey"
  /\ arg' = dst
  /\ ret' = ExtractUserKey(dst)
  /\ reads' = {}
  /\ UNCHANGED <<dst, result, key, lk>>

DoMVExtractUserKey ==
  /\ MVExtractUserKeyPre(dst)
  /\ op' = "MVExtractUserKey"
  /\ arg' = dst
  /\ ret' = MVExtractUserKey(dst)
  /\ reads' = {}
  /\ UNCHANGED <<dst, result, key, lk>>

ClearBuffer ==
  /\ op # "init"
  /\ op' = "ClearBuffer"
  /\ arg' = <<>>
  /\ dst' = <<>>
  /\ ret' = FALSE
  /\ reads' = {}
  /\ result' = Uninit
  /\ UNCHANGED <<key, lk>>

NextCodec ==
  \/ SetBuffer
  \/ ClearBuffer
  \/ DoAppendInternalKey
  \/ DoAppendMVInternalKey
  \/ DoParseInternalKey
  \/ DoParseMVInternalKey
  \/ DoExtractUserKey
  \/ DoMVExtractUserKey

SpecCodec == Init /\ [][NextCodec]_vars

----------------------------------------------------------------------------
(* Properties of the codec. *)

\* C1: a parse of the bytes AppendInternalKey wrote to an empty buffer for
\* {u, s, t}, s in [0, 2^56 - 1] and t in {0, 1}, succeeds and yields exactly
\* {u, s, t}; likewise ParseMVInternalKey after AppendMVInternalKey yields
\* exactly {u, s, t, vt}.
RoundTripStep ==
  /\ (op = "AppendInternalKey" /\ arg.buf = <<>> /\ op' = "ParseInternalKey")
       => (ret' = TRUE /\ result' = arg.key)
  /\ (op = "AppendMVInternalKey" /\ arg.buf = <<>>
        /\ op' = "ParseMVInternalKey")
       => (ret' = TRUE /\ result' = arg.key)

RoundTrip == [][RoundTripStep]_vars

\* Both forms have been encoded from the largest sequence number and parsed
\* back: here the multi-version one, with the largest valid time.
RoundTripWitness ==
  /\ op = "ParseMVInternalKey"
  /\ ret = TRUE
  /\ arg = AppendMVInternalKey(<<>>,
             ParsedMVInternalKey(<<97, 0>>, kMaxSequenceNumber, kTypeValue,
                                 kMaxValidTime))
  /\ result.sequence = kMaxSequenceNumber
  /\ result.valid_time = kMaxValidTime
  /\ result.user_key = <<97, 0>>

\* C3: ParseInternalKey fails on every input shorter than 8 bytes and
\* ParseMVInternalKey on every input shorter than 16 bytes, and neither reads
\* a byte of such an input.
RejectsShortInput ==
  /\ (op = "ParseInternalKey" /\ Len(arg) < 8) => (ret = FALSE /\ reads = {})
  /\ (op = "ParseMVInternalKey" /\ Len(arg) < 16)
       => (ret = FALSE /\ reads = {})

\* A 15-byte input, one byte short of a multi-version key of an empty user
\* key, has been rejected by ParseMVInternalKey and none of it was read.
RejectsShortInputWitness ==
  /\ op = "ParseMVInternalKey"
  /\ Len(arg) = 15
  /\ ret = FALSE
  /\ reads = {}

\* The type byte of an encoded key: the low byte of the tag that sits
\* `suffix` bytes before the end.
TypeByteOf(bytes, suffix) == LowByte(DecodeFixed64(bytes, Len(bytes) - suffix))

\* C4: on an input long enough to decode, a parse succeeds exactly when the
\* tag's type byte is 0 or 1; every type byte from 2 to 255 is rejected.
RejectsMalformedType ==
  /\ (op = "ParseInternalKey" /\ Len(arg) >= 8)
       => (ret = (TypeByteOf(arg, 8) \in {0, 1}))
  /\ (op = "ParseMVInternalKey" /\ Len(arg) >= 16)
       => (ret = (TypeByteOf(arg, 16) \in {0, 1}))

\* An internal key whose type byte is 2 has been rejected.
RejectsMalformedTypeWitness ==
  /\ op = "ParseInternalKey"
  /\ Len(arg) >= 8
  /\ TypeByteOf(arg, 8) = 2
  /\ ret = FALSE

\* The largest sequence number as an unsigned comparison.
InSequenceRange(seq) == ~LessU64(kMaxSequenceNumber, seq)

\* What C10 states of a parse of `bytes` whose tag sits `suffix` bytes before
\* the end.
TagDecomposed(bytes, suffix, extracted) ==
  LET num == DecodeFixed64(bytes, Len(bytes) - suffix) IN
  /\ result.sequence = ShiftRight8(num)
  /\ LowByte(num) \in ValueTypes => result.type = LowByte(num)
  /\ ret = TRUE =>
       /\ InSequenceRange(result.sequence)
       /\ result.type \in {0, 1}
       /\ result.type = LowByte(num)
       /\ OrLow(ShiftLeft8(result.sequence), result.type) = num
       /\ result.user_key = SubSeq(bytes, 1, Len(bytes) - suffix)
       /\ result.user_key = extracted

----------------------------------------------------------------------------
(* The internal key comparator over an injected user comparator. *)

RECURSIVE BytewiseFrom(_, _, _)
BytewiseFrom(a, b, i) ==
  IF i > Len(a) /\ i > Len(b) THEN 0
  ELSE IF i > Len(a) THEN -1
  ELSE IF i > Len(b) THEN 1
  ELSE IF a[i] < b[i] THEN -1
  ELSE IF a[i] > b[i] THEN 1
  ELSE BytewiseFrom(a, b, i + 1)

\* The user comparators injected here: bytewise order and its reverse.
UserComparators == {"bytewise", "reverse"}

UserCompare(U, a, b) ==
  IF U = "bytewise" THEN BytewiseFrom(a, b, 1) ELSE BytewiseFrom(b, a, 1)

\* InternalKeyComparator::Compare(akey, bkey) with multi_version = false:
\* user keys under the user comparator, then tags in decreasing order.
Compare(U, akey, bkey) ==
  LET r == UserCompare(U, ExtractUserKey(akey), ExtractUserKey(bkey)) IN
  IF r # 0 THEN r
  ELSE LET anum == DecodeFixed64(akey, Len(akey) - 8)
           bnum == DecodeFixed64(bkey, Len(bkey) - 8)
       IN IF LessU64(bnum, anum) THEN -1
          ELSE IF LessU64(anum, bnum) THEN 1
          ELSE 0

CmpSeqNums == {U64Of(1), U64Of(256), U64Of(257), kMaxSequenceNumber}

CmpKeys ==
  {ParsedInternalKey(u, s, t) :
     u \in UserKeys, s \in CmpSeqNums, t \in ValueTypes}

\* One call of Compare on two encoded internal keys.
DoCompare ==
  /\ op = "init"
  /\ \E U \in UserComparators, ka \in CmpKeys, kb \in CmpKeys :
       /\ op' = "Compare"
       /\ arg' = [U |-> U, a |-> ka, b |-> kb]
       /\ ret' = Compare(U, AppendInternalKey(<<>>, ka),
                         AppendInternalKey(<<>>, kb))
  /\ UNCHANGED <<dst, result, reads, key, lk>>

NextCompare == DoCompare

SpecCompare == Init /\ [][NextCompare]_vars

Sign(x) == IF x < 0 THEN -1 ELSE IF x > 0 THEN 1 ELSE 0

\* C2: Compare orders encoded internal keys by user key under the user
\* comparator and, for equal user keys, by decreasing tag: the sign is the user
\* comparator's when the user keys differ; for equal user keys the larger
\* sequence compares less whatever the types; for equal user key and sequence
\* type 1 compares less than type 0.
InternalKeyOrder ==
  op = "Compare" =>
    LET a == arg.a
        b == arg.b
        u == UserCompare(arg.U, a.user_key, b.user_key)
    IN /\ a.user_key # b.user_key => (u # 0 /\ Sign(ret) = Sign(u))
       /\ (a.user_key = b.user_key /\ LessU64(b.sequence, a.sequence))
            => ret < 0
       /\ (a.user_key = b.user_key /\ LessU64(a.sequence, b.sequence))
            => ret > 0
       /\ (a.user_key = b.user_key /\ a.sequence = b.sequence
             /\ a.type = kValueTypeForSeek /\ b.type = kTypeDeletion)
            => ret < 0
       /\ a = b => ret = 0

\* A deletion with the larger sequence has compared less than a value with
\* the smaller sequence of the same user key: the sequences 257 and 256 differ
\* in the tag's second byte only.
InternalKeyOrderWitness ==
  /\ op = "Compare"
  /\ arg.a.user_key = arg.b.user_key
  /\ arg.a.user_key # <<>>
  /\ arg.a.sequence = U64Of(257) /\ arg.a.type = kTypeDeletion
  /\ arg.b.sequence = U64Of(256) /\ arg.b.type = kTypeValue
  /\ ret < 0

----------------------------------------------------------------------------
(* The filter policy adapter over an injected user filter policy. *)

RECURSIVE SumBytes(_, _)
SumBytes(bytes, i) ==
  IF i > Len(bytes) THEN 0 ELSE bytes[i] + SumBytes(bytes, i + 1)

\* A small hash of a user key, for a filter with false positives.
HashKey(k) == (SumBytes(k, 1) + 3 * Len(k)) % 5

\* The user policies injected here: an exact set of keys, and a set of hashes.
UserPolicies == {"exact", "hash"}

UserCreateFilter(P, keys) ==
  IF P = "exact" THEN {keys[i] : i \in 1..Len(keys)}
  ELSE {<<HashKey(keys[i])>> : i \in 1..Len(keys)}

UserKeyMayMatch(P, k, filter) ==
  IF P = "exact" THEN k \in filter ELSE <<HashKey(k)>> \in filter

\* InternalFilterPolicy::CreateFilter: the user policy on the user keys.
InternalCreateFilter(P, keys) ==
  UserCreateFilter(P, [i \in 1..Len(keys) |-> ExtractUserKey(keys[i])])

\* InternalFilterPolicy::KeyMayMatch: the user policy on the user key.
InternalKeyMayMatch(P, k, filter) ==
  UserKeyMayMatch(P, ExtractUserKey(k), filter)

FilterSeqNums == {U64Of(1), U64Of(5)}

\* The keys a filter is built from.
BuildKeys ==
  {AppendInternalKey(<<>>, ParsedInternalKey(u, s, t)) :
     u \in ShortKeys, s \in FilterSeqNums, t \in ValueTypes}

BuildLists ==
  {<<>>} \cup {<<a>> : a \in BuildKeys}
         \cup {<<a, b>> : a \in BuildKeys, b \in BuildKeys}

ProbeKeys ==
  {ParsedInternalKey(u, s, t) :
     u \in UserKeys, s \in FilterSeqNums, t \in ValueTypes}

ProbeValidTimes == {U64Of(42), kMaxValidTime}

ProbeMVKeys ==
  {ParsedMVInternalKey(u, s, t, vt) :
     u \in UserKeys, s \in FilterSeqNums, t \in ValueTypes,
     vt \in ProbeValidTimes}

DoCreateFilter ==
  /\ op = "init"
  /\ \E P \in UserPolicies, keys \in BuildLists :
       /\ op' = "CreateFilter"
       /\ arg' = [policy |-> P, keys |-> keys]
       /\ ret' = InternalCreateFilter(P, keys)
  /\ UNCHANGED <<dst, result, reads, key, lk>>

\* A probe of the filter just built with an encoded internal key.
DoKeyMayMatch ==
  /\ op = "CreateFilter"
  /\ \E k \in ProbeKeys :
       /\ op' = "KeyMayMatch"
       /\ arg' = [policy |-> arg.policy, filter |-> ret, form |-> "internal",
                  key |-> k]
       /\ ret' = InternalKeyMayMatch(arg.policy, AppendInternalKey(<<>>, k),
                                     ret)
  /\ UNCHANGED <<dst, result, reads, key, lk>>

\* A probe of the filter just built with an encoded multi-version key.
DoKeyMayMatchMV ==
  /\ op = "CreateFilter"
  /\ \E k \in ProbeMVKeys :
       /\ op' = "KeyMayMatch"
       /\ arg' = [policy |-> arg.policy, filter |-> ret, form |-> "mv",
                  key |-> k]
       /\ ret' = InternalKeyMayMatch(arg.policy, AppendMVInternalKey(<<>>, k),
                                     ret)
  /\ UNCHANGED <<dst, result, reads, key, lk>>

NextFilter ==
  \/ DoCreateFilter
  \/ DoKeyMayMatch
  \/ DoKeyMayMatchMV

SpecFilter == Init /\ [][NextFilter]_vars

\* The answers for the internal keys of user key u at every sequence and type.
AnswersInternal(P, u, filter) ==
  {InternalKeyMayMatch(P, AppendInternalKey(<<>>, ParsedInternalKey(u, s, t)),
                       filter) : s \in SeqNums, t \in ValueTypes}

\* The answers for the multi-version keys of user key u at the given
\* sequences and types, at every valid time.
AnswersMV(P, u, seqs, types, filter) ==
  {InternalKeyMayMatch(P,
     AppendMVInternalKey(<<>>, ParsedMVInternalKey(u, s, t, vt)), filter) :
     s \in seqs, t \in types, vt \in ValidTimes}

----------------------------------------------------------------------------
(* The lookup key builders.  A pointer into the object's buffer is the     *)
(* offset of the byte it points to; Slice(p, n) is the n bytes from p.     *)

Slice(buf, p, n) == SubSeq(buf, p + 1, p + n)

\* LookupKey::LookupKey(user_key, s): klength varint32, userkey, tag, written
\* to space_ when they fit and to a new array otherwise.
NewLookupKey(user_key, s) ==
  LET usize == Len(user_key)
      klength == EncodeVarint32(usize + 8)
      needed == Len(klength) + usize + 8
  IN [cls |-> "LookupKey",
      buf |-> klength \o user_key
                \o EncodeFixed64(PackSequenceAndType(s, kValueTypeForSeek)),
      start_ |-> 0,
      kstart_ |-> Len(klength),
      end_ |-> needed,
      heap |-> (needed > kSpaceSize)]

\* MVLookupKey::MVLookupKey(user_key, s, t): as above with the valid time
\* after the tag.
NewMVLookupKey(user_key, s, t) ==
  LET usize == Len(user_key)
      klength == EncodeVarint32(usize + 16)
      needed == Len(klength) + usize + 16
  IN [cls |-> "MVLookupKey",
      buf |-> klength \o user_key
                \o EncodeFixed64(PackSequenceAndType(s, kValueTypeForSeek))
                \o EncodeFixed64(t),
      start_ |-> 0,
      kstart_ |-> Len(klength),
      end_ |-> needed,
      heap |-> (needed > kSpaceSize)]

LookupKey_memtable_key(k) == Slice(k.buf, k.start_, k.end_ - k.start_)

LookupKey_internal_key(k) == Slice(k.buf, k.kstart_, k.end_ - k.kstart_)

\* LookupKey::user_key with the suffix length of the multi-version form.
LookupKey_user_key_Trim16(k) == Slice(k.buf, k.kstart_, k.end_ - k.kstart_ - 16)

LookupKey_user_key(k) == Slice(k.buf, k.kstart_, k.end_ - k.kstart_ - 8)

MVLookupKey_memtable_key(k) == Slice(k.buf, k.start_, k.end_ - k.start_)

MVLookupKey_internal_key(k) == Slice(k.buf, k.kstart_, k.end_ - k.kstart_)

MVLookupKey_user_key(k) == Slice(k.buf, k.kstart_, k.end_ - k.kstart_ - 16)

\* MVLookupKey::valid_time reading the tag instead of the last field.
MVLookupKey_valid_time_Tag(k) == DecodeFixed64(k.buf, k.end_ - 16)

MVLookupKey_valid_time(k) == DecodeFixed64(k.buf, k.end_ - 8)

Fill(b, n) == [i \in 1..n |-> b]

\* User key lengths around the two-byte varint (length + suffix = 128) and
\* around the capacity of space_, for both suffix lengths.
BoundaryLens ==
  {128 - 17, 128 - 16, 128 - 9, 128 - 8}
    \cup ((kSpaceSize - 19) .. (kSpaceSize - 17))
    \cup ((kSpaceSize - 11) .. (kSpaceSize - 9))
    \cup {kSpaceSize, kSpaceSize + 1}

LookupUserKeys == UserKeys \cup {Fill(b, n) : b \in {97, 255}, n \in BoundaryLens}

DoNewLookupKey ==
  /\ lk.cls = "none"
  /\ \E u \in LookupUserKeys, s \in SeqNums :
       /\ op' = "LookupKey"
       /\ arg' = [user_key |-> u, sequence |-> s]
       /\ lk' = NewLookupKey(u, s)
  /\ UNCHANGED <<ret, dst, result, reads, key>>

DoNewMVLookupKey ==
  /\ lk.cls = "none"
  /\ \E u \in LookupUserKeys, s \in SeqNums, t \in ValidTimes :
       /\ op' = "MVLookupKey"
       /\ arg' = [user_key |-> u, sequence |-> s, valid_time |-> t]
       /\ lk' = NewMVLookupKey(u, s, t)
  /\ UNCHANGED <<ret, dst, result, reads, key>>

\* ~LookupKey / ~MVLookupKey: the array is freed when it is not space_.
DoDeleteLookupKey ==
  /\ lk.cls # "none"
  /\ op' = "~LookupKey"
  /\ arg' = <<>>
  /\ lk' = NoLookup
  /\ UNCHANGED <<ret, dst, result, reads, key>>

NextLookup ==
  \/ DoNewLookupKey
  \/ DoNewMVLookupKey
  \/ DoDeleteLookupKey

SpecLookup == Init /\ [][NextLookup]_vars

\* C6: a LookupKey built from (u, s) exposes memtable_key() = varint32(len(u)
\* + 8) followed by internal_key(), internal_key() = u followed by the tag
\* (s << 8 | SeekType), and user_key() = u, whether the bytes are in space_ or
\* in a heap array.
LookupKeyViews ==
  lk.cls = "LookupKey" =>
    LET u == arg.user_key
        tag == OrLow(ShiftLeft8(arg.sequence), kValueTypeForSeek)
        mk == LookupKey_memtable_key(lk)
    IN /\ LookupKey_user_key(lk) = u
       /\ LookupKey_internal_key(lk) = u \o EncodeFixed64(tag)
       /\ mk = EncodeVarint32(Len(u) + 8) \o LookupKey_internal_key(lk)
       /\ GetVarint32From(mk, 1).value = Len(u) + 8
       /\ Len(mk) = GetVarint32From(mk, 1).len + Len(u) + 8

\* A LookupKey for a user key too long for space_ has been built in a heap
\* array.
LookupKeyViewsWitness ==
  /\ lk.cls = "LookupKey"
  /\ lk.heap
  /\ Len(arg.user_key) = kSpaceSize - 9
  /\ arg.sequence = kMaxSequenceNumber
  /\ LookupKey_user_key(lk) = arg.user_key

\* C9: an MVLookupKey built from (u, s, vt) exposes internal_key() of length
\* len(u) + 16, user_key() = u, valid_time() = vt, and memtable_key() =
\* varint32(len(u) + 16) followed by internal_key().
MVLookupKeyViews ==
  lk.cls = "MVLookupKey" =>
    LET u == arg.user_key
        tag == OrLow(ShiftLeft8(arg.sequence), kValueTypeForSeek)
        ik == MVLookupKey_internal_key(lk)
        mk == MVLookupKey_memtable_key(lk)
    IN /\ Len(ik) = Len(u) + 16
       /\ ik = u \o EncodeFixed64(tag) \o EncodeFixed64(arg.valid_time)
       /\ MVLookupKey_user_key(lk) = u
       /\ MVLookupKey_user_key(lk) = SubSeq(ik, 1, Len(ik) - 16)
       /\ MVLookupKey_valid_time(lk) = arg.valid_time
       /\ mk = EncodeVarint32(Len(u) + 16) \o ik
       /\ GetVarint32From(mk, 1).value = Len(u) + 16

\* An MVLookupKey whose length prefix takes two bytes and whose valid time
\* differs from its tag has been built.
MVLookupKeyViewsWitness ==
  /\ lk.cls = "MVLookupKey"
  /\ Len(arg.user_key) = 128 - 16
  /\ lk.kstart_ = 2
  /\ arg.valid_time = U64Of(42)
  /\ arg.sequence = kMaxSequenceNumber
  /\ MVLookupKey_valid_time(lk) = U64Of(42)

----------------------------------------------------------------------------
(* The owning key types.  One key object lives at a time; ret is the       *)
(* outcome of the last member call: how it ended and what it returned.     *)

Returned(v) == [outcome |-> "returned", value |-> v]

\* InternalKey() / MVInternalKey(): rep_ is left empty.
InternalKey_Default == [cls |-> "InternalKey", rep_ |-> <<>>]

MVInternalKey_Default == [cls |-> "MVInternalKey", rep_ |-> <<>>]

\* InternalKey(user_key, s, t)
InternalKey_New(u, s, t) ==
  [cls |-> "InternalKey",
   rep_ |-> AppendInternalKey(<<>>, ParsedInternalKey(u, s, t))]

\* MVInternalKey(user_key, s, t, vt)
MVInternalKey_New(u, s, t, vt) ==
  [cls |-> "MVInternalKey",
   rep_ |-> AppendMVInternalKey(<<>>, ParsedMVInternalKey(u, s, t, vt))]

\* DecodeFrom(s) of either class: rep_.assign(s.data(), s.size()).
DecodeFrom(k, s) ==
  {[key |-> [k EXCEPT !.rep_ = s], ret |-> Returned(s # <<>>)]}

\* s.size() - 8 in size_t: below 8 bytes the difference wraps around to more
\* than 2^64 - 9.
SizeMinus8Wraps(s) == Len(s) < 8

\* InternalKey::DecodeFromMV(s): rep_.assign(s.data(), s.size() - 8).  With
\* the count wrapped, assign is asked for more than max_size() bytes: it
\* throws std::length_error, which ends the process where exceptions are
\* disabled; rep_ is not replaced and nothing is returned.
DecodeFromMV(k, s) ==
  IF SizeMinus8Wraps(s)
    THEN {[key |-> k, ret |-> [outcome |-> o, value |-> FALSE]] :
            o \in {"length_error", "terminate"}}
    ELSE LET r == SubSeq(s, 1, Len(s) - 8)
         IN {[key |-> [k EXCEPT !.rep_ = r], ret |-> Returned(r # <<>>)]}

\* SetFrom(p): rep_.clear(), then the append.
InternalKey_SetFrom(k, p) == [k EXCEPT !.rep_ = AppendInternalKey(<<>>, p)]

MVInternalKey_SetFrom(k, p) == [k EXCEPT !.rep_ = AppendMVInternalKey(<<>>, p)]

Clear(k) == [k EXCEPT !.rep_ = <<>>]

\* Encode() asserts a non-empty rep_ and returns it.
EncodePre(k) == k.rep_ # <<>>

Encode(k) == k.rep_

InternalKey_user_key(k) == ExtractUserKey(k.rep_)

MVInternalKey_user_key(k) == MVExtractUserKey(k.rep_)

KeySeqNums == {U64Of(5), kMaxSequenceNumber}

KeyParsedKeys ==
  {ParsedInternalKey(u, s, t) :
     u \in UserKeys, s \in KeySeqNums, t \in ValueTypes}

KeyParsedMVKeys ==
  {ParsedMVInternalKey(u, s, t, vt) :
     u \in UserKeys, s \in KeySeqNums, t \in ValueTypes,
     vt \in {U64Of(42), kMaxValidTime}}

\* The byte strings handed to DecodeFrom and DecodeFromMV: an encoded
\* multi-version key with a valid or an invalid type byte, whole and cut to
\* every shorter length.
KeyInputs ==
  UNION {Prefixes(u \o EncodeFixed64(tag) \o EncodeFixed64(U64Of(42))) :
           u \in {<<>>, <<97>>},
           tag \in {U64Of(1280), U64Of(1281), U64Of(1282)}}

KeyStep(o, a, k, r) ==
  /\ op' = o
  /\ arg' = a
  /\ key' = k
  /\ ret' = r
  /\ UNCHANGED <<dst, result, reads, lk>>

DoInternalKey_Default ==
  /\ key.cls = "none"
  /\ KeyStep("InternalKey()", <<>>, InternalKey_Default, Returned(TRUE))

DoInternalKey_New ==
  /\ key.cls = "none"
  /\ \E p \in KeyParsedKeys :
       KeyStep("InternalKey(u,s,t)", p,
               InternalKey_New(p.user_key, p.sequence, p.type), Returned(TRUE))

DoMVInternalKey_Default ==
  /\ key.cls = "none"
  /\ KeyStep("MVInternalKey()", <<>>, MVInternalKey_Default, Returned(TRUE))

DoMVInternalKey_New ==
  /\ key.cls = "none"
  /\ \E p \in KeyParsedMVKeys :
       KeyStep("MVInternalKey(u,s,t,vt)", p,
               MVInternalKey_New(p.user_key, p.sequence, p.type, p.valid_time),
               Returned(TRUE))

DoDecodeFrom ==
  /\ key.cls # "none"
  /\ ret.outcome = "returned"
  /\ \E s \in KeyInputs : \E o \in DecodeFrom(key, s) :
       KeyStep("DecodeFrom", s, o.key, o.ret)

DoDecodeFromMV ==
  /\ key.cls = "InternalKey"
  /\ ret.outcome = "returned"
  /\ \E s \in KeyInputs : \E o \in DecodeFromMV(key, s) :
       KeyStep("DecodeFromMV", s, o.key, o.ret)

DoInternalKey_SetFrom ==
  /\ key.cls = "InternalKey"
  /\ ret.outcome = "returned"
  /\ \E p \in KeyParsedKeys :
       KeyStep("SetFrom", p, InternalKey_SetFrom(key, p), Returned(TRUE))

DoMVInternalKey_SetFrom ==
  /\ key.cls = "MVInternalKey"
  /\ ret.outcome = "returned"
  /\ \E p \in KeyParsedMVKeys :
       KeyStep("SetFrom", p, MVInternalKey_SetFrom(key, p), Returned(TRUE))

DoClear ==
  /\ key.cls # "none"
  /\ ret.outcome = "returned"
  /\ KeyStep("Clear", <<>>, Clear(key), Returned(TRUE))

DoEncode ==
  /\ key.cls # "none"
  /\ ret.outcome = "returned"
  /\ EncodePre(key)
  /\ KeyStep("Encode", <<>>, key, Returned(Encode(key)))

DoInternalKey_user_key ==
  /\ key.cls = "InternalKey"
  /\ ret.outcome = "returned"
  /\ ExtractUserKeyPre(key.rep_)
  /\ KeyStep("user_key", <<>>, key, Returned(InternalKey_user_key(key)))

DoMVInternalKey_user_key ==
  /\ key.cls = "MVInternalKey"
  /\ ret.outcome = "returned"
  /\ MVExtractUserKeyPre(key.rep_)
  /\ KeyStep("user_key", <<>>, key, Returned(MVInternalKey_user_key(key)))

\* The key object goes out of scope.
DoDestroyKey ==
  /\ key.cls # "none"
  /\ ret.outcome # "terminate"
  /\ KeyStep("~Key", <<>>, NoKey, Returned(TRUE))

NextKey ==
  \/ DoInternalKey_Default
  \/ DoInternalKey_New
  \/ DoMVInternalKey_Default
  \/ DoMVInternalKey_New
  \/ DoDecodeFrom
  \/ DoDecodeFromMV
  \/ DoInternalKey_SetFrom
  \/ DoMVInternalKey_SetFrom
  \/ DoClear
  \/ DoEncode
  \/ DoInternalKey_user_key
  \/ DoMVInternalKey_user_key
  \/ DoDestroyKey

InitKey ==
  /\ op = "init"
  /\ arg = <<>>
  /\ ret = Returned(FALSE)
  /\ dst = <<>>
  /\ result = Uninit
  /\ reads = {}
  /\ key = NoKey
  /\ lk = NoLookup

SpecKey == InitKey /\ [][NextKey]_vars

\* A well-formed encoded key: one its parser accepts.
WellFormedInternalKey(bytes) ==
  /\ Len(bytes) >= 8
  /\ \A o \in ParseInternalKey(bytes, Uninit) : o.ret

WellFormedMVInternalKey(bytes) ==
  /\ Len(bytes) >= 16
  /\ \A o \in ParseMVInternalKey(bytes, Uninit) : o.ret

\* C7: after any sequence of operations the buffer of an InternalKey is empty
\* or a well-formed encoded key of at least 8 bytes, and the buffer of an
\* MVInternalKey is empty or a well-formed encoded multi-version key of at
\* least 16 bytes.
OwningKeyInvariant ==
  /\ key.cls = "InternalKey"
       => (key.rep_ = <<>> \/ WellFormedInternalKey(key.rep_))
  /\ key.cls = "MVInternalKey"
       => (key.rep_ = <<>> \/ WellFormedMVInternalKey(key.rep_))

\* C8: DecodeFromMV(b) replaces the buffer with the leading len(b) - 8 bytes
\* of b, for every b, and returns failure whenever that buffer is empty; on
\* the multi-version encoding of {u, s, t, vt} the key's Encode() is then the
\* encoding of {u, s, t}.
DecodeFromMVDropsValidTime ==
  op = "DecodeFromMV" =>
    /\ ret.outcome = "returned"
    /\ key.rep_ = SubSeq(arg, 1, Len(arg) - 8)
    /\ key.rep_ = <<>> => ret.value = FALSE
    /\ \A p \in KeyParsedMVKeys :
         arg = AppendMVInternalKey(<<>>, p)
           => Encode(key) = AppendInternalKey(<<>>,
                 ParsedInternalKey(p.user_key, p.sequence, p.type))

\* What does hold of DecodeFromMV: on every input of at least 8 bytes it
\* returns, with the buffer the input without its last 8 bytes and failure
\* exactly when that buffer is empty; on a shorter input it does not return
\* and leaves the buffer as it was.
DecodeFromMVFromEightBytes ==
  [][op' = "DecodeFromMV" =>
       IF Len(arg') >= 8
         THEN /\ ret'.outcome = "returned"
              /\ key'.rep_ = SubSeq(arg', 1, Len(arg') - 8)
              /\ ret'.value = (key'.rep_ # <<>>)
         ELSE /\ ret'.outcome # "returned"
              /\ key' = key]_vars

\* What does hold of the owning keys: a buffer that is neither empty nor
\* well formed is one that DecodeFrom or DecodeFromMV stored.
IllFormedOnlyByDecode ==
  [][(~OwningKeyInvariant' /\ OwningKeyInvariant)
       => op' \in {"DecodeFrom", "DecodeFromMV"}]_vars

====
